---- MODULE Spec2Model ----
(***************************************************************************)
(* Judging and scrambling assignment for a competition (main.py) and the   *)
(* verification of a produced assignment (check.py).                       *)
(*                                                                         *)
(* Strings are sequences of one-character strings, so that str.split and   *)
(* str.endswith are computed on the characters; '' is the empty sequence.  *)
(***************************************************************************)
EXTENDS Integers, Sequences, FiniteSets, TLC

\* ---------------------------------------------------------------- bounds
MaxJudgesPerGroup == 1
MaxScramblersPerGroup == 1
MaxCap == 1
MaxExperienced == 2

\* ------------------------------------------------- the bounded input space
\* the names that the rows of the input CSV file are taken from, in file order
RowOrder == <<"a", "b", "c", "d">>
\* the recognised event columns of the input CSV file, in column order
EVENT_IDS == <<"333", "222">>

R1  == <<"R", " ", "1">>
B1  == <<"B", " ", "1">>
R2  == <<"R", " ", "2">>
R11 == <<"R", " ", "1", "1">>
Labels == {R1, B1, R2, R11}
\* a cell of the input CSV that is empty, and an assignment not yet given
Empty == <<>>

Range(s) == {s[i] : i \in 1..Len(s)}
EventSet == Range(EVENT_IDS)

\* ------------------------------------------------------------ pure helpers
RECURSIVE LastSpace(_, _)
\* index of the last " " of s at or before position i, 0 when there is none
LastSpace(s, i) ==
    IF i = 0 THEN 0
    ELSE IF s[i] = " " THEN i ELSE LastSpace(s, i - 1)

\* s.split(' ')[-1]
SplitLast(s) == SubSeq(s, LastSpace(s, Len(s)) + 1, Len(s))

\* g.endswith(suffix)
EndsWith(g, suffix) ==
    /\ Len(suffix) <= Len(g)
    /\ SubSeq(g, Len(g) - Len(suffix) + 1, Len(g)) = suffix

\* the elements of seq that satisfy the test, in order
RECURSIVE FilterConcurrent(_, _, _)
FilterConcurrent(group_number, groups, want_concurrent) ==
    IF groups = <<>> THEN <<>>
    ELSE LET g == Head(groups)
             rest == FilterConcurrent(group_number, Tail(groups), want_concurrent)
         IN  IF EndsWith(g, group_number) = want_concurrent
             THEN <<g>> \o rest
             ELSE rest

\* lines 17-21 with the group itself skipped by the loop
filter_concurrent_groups_SkippingSelf(group, groups) ==
    LET group_number == SplitLast(group)
        others == SelectSeq(groups, LAMBDA g : g # group)
    IN  [non_concurrent_group_names |-> FilterConcurrent(group_number, others, FALSE),
         concurrent_group_names     |-> FilterConcurrent(group_number, others, TRUE)]

\* filter_concurrent_groups(group, groups): groups is the sequence of the
\* keys of the event's dict, in insertion order
filter_concurrent_groups(group, groups) ==
    LET group_number == SplitLast(group)
    IN  [non_concurrent_group_names |-> FilterConcurrent(group_number, groups, FALSE),
         concurrent_group_names     |-> FilterConcurrent(group_number, groups, TRUE)]

\* ------------------------------------------------------------------- state
VARIABLES
    schedule,                       \* the input CSV: competitor -> event -> group label or ''
    event_to_groups_to_competitors, \* event -> group -> pool (a deque, popped at the back)
    event_keys,                     \* key order of event_to_groups_to_competitors
    group_keys,                     \* event -> key order of the event's groups
    judging_assignments,            \* competitor -> event -> group or ''
    scrambling_assignments,         \* competitor -> event -> group or ''
    delegates,
    approved_scramblers,
    experienced_competitors,        \* list
    judges_per_group,
    scramblers_per_group,
    max_scramble_assignments_per_competitor,
    pc,                             \* position of the driver
    event_index,                    \* position of the outer loop (line 93)
    group_index,                    \* position of the inner loop (line 94)
    non_concurrent_group_names,
    concurrent_group_names,
    judges_assigned_to_group,
    scramblers_assigned_to_group,
    scramblers_available,
    judges_available_from_other_groups_available,
    initial_num_experienced_competitors,
    experienced_competitor_attempts,
    warnings,                       \* the WARN lines printed so far
    last_call,                      \* what the latest loop iteration did
    eligible_at_scrambler_phase,    \* eligible scramblers when the group's scrambler loop began
    eligible_at_judge_phase,        \* eligible judges when the group's judge loop began
    judge_out,                      \* the names of the rows written to the judging file
    scramble_out,                   \* the names of the rows written to the scrambling file
    zero_judging_warnings           \* the names in the "0 judging assignments" WARN lines

inputs == <<schedule, event_keys, group_keys, delegates, approved_scramblers,
            judges_per_group, scramblers_per_group,
            max_scramble_assignments_per_competitor>>
maps == <<judging_assignments, scrambling_assignments>>
position == <<pc, event_index, group_index>>
locals == <<non_concurrent_group_names, concurrent_group_names,
            judges_assigned_to_group, scramblers_assigned_to_group,
            scramblers_available, judges_available_from_other_groups_available,
            initial_num_experienced_competitors, experienced_competitor_attempts>>
output == <<judge_out, scramble_out, zero_judging_warnings>>
vars == <<inputs, event_to_groups_to_competitors, maps, experienced_competitors,
          position, locals, warnings, last_call,
          eligible_at_scrambler_phase, eligible_at_judge_phase, output>>

\* the event and the group the driver is at
event == event_keys[event_index]
group == group_keys[event][group_index]
groups == event_to_groups_to_competitors[event]

\* ------------------------------------------------- building the structures
\* the rows of the input CSV, in file order
Rows(sched) == SelectSeq(RowOrder, LAMBDA name : name \in DOMAIN sched)

\* the cells of the input CSV in reading order: row by row, column by column
Cells(sched) ==
    [k \in 1..(Len(Rows(sched)) * Len(EVENT_IDS)) |->
        [name |-> Rows(sched)[((k - 1) \div Len(EVENT_IDS)) + 1],
         event_id |-> EVENT_IDS[((k - 1) % Len(EVENT_IDS)) + 1]]]

AppendNew(seq, x) == IF x \in Range(seq) THEN seq ELSE Append(seq, x)

RECURSIVE EventKeysUpTo(_, _)
\* insertion order of the keys of event_to_groups_to_competitors
EventKeysUpTo(sched, k) ==
    IF k = 0 THEN <<>>
    ELSE LET c == Cells(sched)[k]
             before == EventKeysUpTo(sched, k - 1)
         IN  IF Len(sched[c.name][c.event_id]) > 0
             THEN AppendNew(before, c.event_id)
             ELSE before

RECURSIVE GroupKeysUpTo(_, _, _)
\* insertion order of the keys of event_to_groups_to_competitors[e]
GroupKeysUpTo(sched, e, k) ==
    IF k = 0 THEN <<>>
    ELSE LET c == Cells(sched)[k]
             before == GroupKeysUpTo(sched, e, k - 1)
         IN  IF c.event_id = e /\ Len(sched[c.name][e]) > 0
             THEN AppendNew(before, sched[c.name][e])
             ELSE before

\* all orderings of the set S
Perms(S) == {p \in [1..Cardinality(S) -> S] : Range(p) = S}

RECURSIVE SelectSeq2(_, _, _, _)
\* the members of the group g of event e, in the order of the sequence order
SelectSeq2(sched, e, g, order) ==
    IF order = <<>> THEN <<>>
    ELSE LET rest == SelectSeq2(sched, e, g, Tail(order))
         IN  IF sched[Head(order)][e] = g THEN <<Head(order)>> \o rest ELSE rest

\* the pools after shuffle_competitors_in_group: every pool holds the
\* competitors of its group, in the order that shuffle[e] ranks them in
PoolsInOrder(sched, shuffle) ==
    [e \in EventSet |-> [g \in Labels |-> SelectSeq2(sched, e, g, shuffle[e])]]

\* init_in_memory_group_representations: the pools that the function can
\* return for a schedule, one for every outcome of random.shuffle
init_in_memory_group_representations(sched) ==
    {PoolsInOrder(sched, shuffle) : shuffle \in [EventSet -> Perms(DOMAIN sched)]}

\* all lists without repetition, of length at most n, over the set S
ListsUpTo(S, n) ==
    UNION {{p \in [1..k -> S] : \A i, j \in 1..k : i # j => p[i] # p[j]} : k \in 0..n}

NoOne == "-"

\* the state after the structures are built (lines 169-193), for the inputs
\* of the input space in: the names of the CSV rows, the cells a row may
\* have for an event, the delegate sets, the approved-scrambler sets, and
\* the least value of the three configured numbers
InitOver(in) ==
    /\ schedule \in [in.names -> {row \in [EventSet -> Labels \cup {Empty}] :
                                     \A e \in EventSet : row[e] \in in.cells[e]}]
    /\ event_to_groups_to_competitors \in init_in_memory_group_representations(schedule)
    /\ event_keys = EventKeysUpTo(schedule, Len(Cells(schedule)))
    /\ group_keys = [e \in EventSet |-> GroupKeysUpTo(schedule, e, Len(Cells(schedule)))]
    /\ judging_assignments = [c \in in.names |-> [e \in EventSet |-> Empty]]
    /\ scrambling_assignments = [c \in in.names |-> [e \in EventSet |-> Empty]]
    /\ delegates \in in.delegate_sets
    /\ approved_scramblers \in in.approved_sets
    /\ experienced_competitors \in ListsUpTo(in.names \ delegates, MaxExperienced)
    /\ judges_per_group \in in.least..MaxJudgesPerGroup
    /\ scramblers_per_group \in in.least..MaxScramblersPerGroup
    /\ max_scramble_assignments_per_competitor \in in.least..MaxCap
    /\ pc = IF event_keys = <<>> THEN "done" ELSE "group"
    /\ event_index = 1
    /\ group_index = 1
    /\ non_concurrent_group_names = <<>>
    /\ concurrent_group_names = <<>>
    /\ judges_assigned_to_group = 0
    /\ scramblers_assigned_to_group = 0
    /\ scramblers_available = TRUE
    /\ judges_available_from_other_groups_available = TRUE
    /\ initial_num_experienced_competitors = 0
    /\ experienced_competitor_attempts = 0
    /\ warnings = <<>>
    /\ last_call = [kind |-> "none", ok |-> FALSE, person |-> NoOne]
    /\ eligible_at_scrambler_phase = 0
    /\ eligible_at_judge_phase = 0
    /\ judge_out = <<>>
    /\ scramble_out = <<>>
    /\ zero_judging_warnings = <<>>

\* three competitors, one event with four groups, every configuration
OneEvent ==
    [names |-> {"a", "b", "c"},
     cells |-> [e \in EventSet |-> IF e = "333" THEN Labels \cup {Empty} ELSE {Empty}],
     delegate_sets |-> SUBSET {"a", "b", "c"},
     approved_sets |-> SUBSET {"a", "b", "c"},
     least |-> 0]

\* two competitors, two events with two groups each, every configuration
TwoEvents ==
    [names |-> {"a", "b"},
     cells |-> [e \in EventSet |-> {R1, R2, Empty}],
     delegate_sets |-> SUBSET {"a", "b"},
     approved_sets |-> SUBSET {"a", "b"},
     least |-> 0]

\* four competitors, one event with four groups, at most one delegate,
\* every competitor an approved scrambler, positive quotas and cap
FourCompetitors ==
    [names |-> {"a", "b", "c", "d"},
     cells |-> [e \in EventSet |-> IF e = "333" THEN Labels \cup {Empty} ELSE {Empty}],
     delegate_sets |-> {{}, {"d"}},
     approved_sets |-> {{"a", "b", "c", "d"}},
     least |-> 1]

\* four competitors, one event with three groups of two time slots, d a
\* delegate, a the approved scrambler, every quota
FourJudges ==
    [names |-> {"a", "b", "c", "d"},
     cells |-> [e \in EventSet |-> IF e = "333" THEN {R1, B1, R2, Empty} ELSE {Empty}],
     delegate_sets |-> {{"d"}},
     approved_sets |-> {{"a"}},
     least |-> 0]

Init == InitOver(OneEvent)
InitTwoEvents == InitOver(TwoEvents)
InitFourCompetitors == InitOver(FourCompetitors)
InitFourJudges == InitOver(FourJudges) /\ max_scramble_assignments_per_competitor > 0

\* ------------------------------------------------------ Role Filler Selector
\* line 77: the number of non-empty values of assignments[person]
num_assignments_already_given(assignments, person) ==
    Cardinality({e \in EventSet : Len(assignments[person][e]) > 0})

\* line 78 with <= in place of <
ScramblerEligible_CapOffByOne(person) ==
    /\ person \in approved_scramblers
    /\ Cardinality({e \in EventSet : Len(scrambling_assignments[person][e]) > 0})
          <= max_scramble_assignments_per_competitor

\* line 78: the scrambler branch commits this person
ScramblerEligible(person) ==
    /\ person \in approved_scramblers
    /\ num_assignments_already_given(scrambling_assignments, person)
          < max_scramble_assignments_per_competitor

\* line 81: the judge branch commits this person
JudgeEligible(person) == person \notin delegates

\* lines 76-83: approved_scramblers is passed (and is not None) exactly in
\* the scrambler call
Eligible(person, as_scrambler) ==
    IF as_scrambler THEN ScramblerEligible(person) ELSE JudgeEligible(person)

RECURSIVE assign_role_to_group_Requeue(_, _, _)
\* lines 71-84 with an ineligible person put back at the front of the pool
assign_role_to_group_Requeue(other_group_names, all_groups, as_scrambler) ==
    IF other_group_names = <<>>
    THEN [all_groups |-> all_groups, ok |-> FALSE, person |-> NoOne]
    ELSE LET other_group == Head(other_group_names)
             pool == all_groups[other_group]
         IN  IF Len(pool) = 0
             THEN assign_role_to_group_Requeue(Tail(other_group_names), all_groups,
                                               as_scrambler)
             ELSE LET person == pool[Len(pool)]
                      front == SubSeq(pool, 1, Len(pool) - 1)
                      popped == [all_groups EXCEPT ![other_group] = front]
                      requeued == [all_groups EXCEPT ![other_group] = <<person>> \o front]
                  IN  IF Eligible(person, as_scrambler)
                      THEN [all_groups |-> popped, ok |-> TRUE, person |-> person]
                      ELSE assign_role_to_group_Requeue(Tail(other_group_names), requeued,
                                                        as_scrambler)

RECURSIVE assign_role_to_group(_, _, _)
\* lines 71-84: walks other_group_names, pops the last competitor of every
\* non-empty pool until one is eligible; returns the pools as it leaves them,
\* whether it committed, and the person it committed
assign_role_to_group(other_group_names, all_groups, as_scrambler) ==
    IF other_group_names = <<>>
    THEN [all_groups |-> all_groups, ok |-> FALSE, person |-> NoOne]
    ELSE LET other_group == Head(other_group_names)
             pool == all_groups[other_group]
         IN  IF Len(pool) = 0
             THEN assign_role_to_group(Tail(other_group_names), all_groups, as_scrambler)
             ELSE LET person == pool[Len(pool)]
                      popped == [all_groups EXCEPT
                                    ![other_group] = SubSeq(pool, 1, Len(pool) - 1)]
                  IN  IF Eligible(person, as_scrambler)
                      THEN [all_groups |-> popped, ok |-> TRUE, person |-> person]
                      ELSE assign_role_to_group(Tail(other_group_names), popped, as_scrambler)

\* ---------------------------------------------------- Group Assignment Driver
\* line 109
ScramblerLoopCond == scramblers_assigned_to_group < scramblers_per_group
\* line 121 with <= in place of <
JudgeLoopCond_OffByOne == judges_assigned_to_group <= judges_per_group

\* line 121
JudgeLoopCond == judges_assigned_to_group < judges_per_group

\* the number of competitors in the pools of the groups names that the
\* Selector would commit
NumEligible(names, pools, as_scrambler) ==
    Cardinality({c \in DOMAIN schedule :
        /\ Eligible(c, as_scrambler)
        /\ \E h \in Range(names) : c \in Range(pools[h])})

Warning(kind) == [kind |-> kind, event |-> event, group |-> group]

\* lines 94-108: the loop reaches a group
StartGroup ==
    /\ pc = "group"
    /\ LET split == filter_concurrent_groups(group, group_keys[event])
       IN  /\ non_concurrent_group_names' = split.non_concurrent_group_names
           /\ concurrent_group_names' = split.concurrent_group_names
           /\ eligible_at_scrambler_phase' =
                 NumEligible(split.non_concurrent_group_names, groups, TRUE)
    /\ judges_assigned_to_group' = 0
    /\ scramblers_assigned_to_group' = 0
    /\ scramblers_available' = TRUE
    /\ pc' = "scramblers"
    /\ UNCHANGED <<output, inputs, event_to_groups_to_competitors, maps, experienced_competitors,
                   event_index, group_index,
                   judges_available_from_other_groups_available,
                   initial_num_experienced_competitors, experienced_competitor_attempts,
                   warnings, last_call, eligible_at_judge_phase>>

\* lines 117-120: between the two loops
BeginJudgePhase(pools) ==
    /\ initial_num_experienced_competitors' = Len(experienced_competitors)
    /\ experienced_competitor_attempts' = 0
    /\ judges_available_from_other_groups_available' = TRUE
    /\ eligible_at_judge_phase' = NumEligible(non_concurrent_group_names, pools, FALSE)
    /\ pc' = "judges"

\* lines 109-111 with the commit written into the judging map
ScramblerAssign_IntoJudgingMap ==
    /\ pc = "scramblers"
    /\ ScramblerLoopCond
    /\ scramblers_available
    /\ LET call == assign_role_to_group(non_concurrent_group_names, groups, TRUE)
       IN  /\ call.ok
           /\ event_to_groups_to_competitors' =
                 [event_to_groups_to_competitors EXCEPT ![event] = call.all_groups]
           /\ judging_assignments' =
                 [judging_assignments EXCEPT ![call.person][event] = group]
           /\ last_call' = [kind |-> "scrambler", ok |-> TRUE, person |-> call.person]
    /\ scramblers_assigned_to_group' = scramblers_assigned_to_group + 1
    /\ UNCHANGED <<output, inputs, scrambling_assignments, experienced_competitors, position,
                   non_concurrent_group_names, concurrent_group_names,
                   judges_assigned_to_group, scramblers_available,
                   judges_available_from_other_groups_available,
                   initial_num_experienced_competitors, experienced_competitor_attempts,
                   warnings, eligible_at_scrambler_phase, eligible_at_judge_phase>>

\* lines 109-111: an iteration of the scrambler loop that commits a scrambler
ScramblerAssign ==
    /\ pc = "scramblers"
    /\ ScramblerLoopCond
    /\ scramblers_available
    /\ LET call == assign_role_to_group(non_concurrent_group_names, groups, TRUE)
       IN  /\ call.ok
           /\ event_to_groups_to_competitors' =
                 [event_to_groups_to_competitors EXCEPT ![event] = call.all_groups]
           /\ scrambling_assignments' =
                 [scrambling_assignments EXCEPT ![call.person][event] = group]
           /\ last_call' = [kind |-> "scrambler", ok |-> TRUE, person |-> call.person]
    /\ scramblers_assigned_to_group' = scramblers_assigned_to_group + 1
    /\ UNCHANGED <<output, inputs, judging_assignments, experienced_competitors, position,
                   non_concurrent_group_names, concurrent_group_names,
                   judges_assigned_to_group, scramblers_available,
                   judges_available_from_other_groups_available,
                   initial_num_experienced_competitors, experienced_competitor_attempts,
                   warnings, eligible_at_scrambler_phase, eligible_at_judge_phase>>

\* lines 109-120: an iteration of the scrambler loop whose call fails: warn,
\* leave the loop and set up the judge loop
ScramblerWarn ==
    /\ pc = "scramblers"
    /\ ScramblerLoopCond
    /\ LET call == assign_role_to_group(non_concurrent_group_names, groups, TRUE)
           pools == IF scramblers_available THEN call.all_groups ELSE groups
       IN  /\ ~(scramblers_available /\ call.ok)
           /\ event_to_groups_to_competitors' =
                 [event_to_groups_to_competitors EXCEPT ![event] = pools]
           /\ BeginJudgePhase(pools)
    /\ warnings' = Append(warnings, Warning("scrambler"))
    /\ scramblers_available' = FALSE
    /\ last_call' = [kind |-> "scrambler", ok |-> FALSE, person |-> NoOne]
    /\ UNCHANGED <<output, inputs, maps, experienced_competitors, event_index, group_index,
                   non_concurrent_group_names, concurrent_group_names,
                   judges_assigned_to_group, scramblers_assigned_to_group,
                   eligible_at_scrambler_phase>>

\* lines 109, 117-120: the scrambler quota is met
ScramblerDone ==
    /\ pc = "scramblers"
    /\ ~ScramblerLoopCond
    /\ BeginJudgePhase(groups)
    /\ UNCHANGED <<output, inputs, event_to_groups_to_competitors, maps, experienced_competitors,
                   event_index, group_index,
                   non_concurrent_group_names, concurrent_group_names,
                   judges_assigned_to_group, scramblers_assigned_to_group,
                   scramblers_available, warnings, last_call,
                   eligible_at_scrambler_phase>>

\* lines 93-94: the loops move on to the next group, the next event, or end
NextGroup ==
    IF group_index < Len(group_keys[event])
    THEN /\ group_index' = group_index + 1
         /\ pc' = "group"
         /\ UNCHANGED event_index
    ELSE IF event_index < Len(event_keys)
    THEN /\ event_index' = event_index + 1
         /\ group_index' = 1
         /\ pc' = "group"
    ELSE /\ pc' = "done"
         /\ UNCHANGED <<event_index, group_index>>

\* lines 121-123: an iteration of the judge loop whose Selector call commits
JudgeAssign ==
    /\ pc = "judges"
    /\ JudgeLoopCond
    /\ judges_available_from_other_groups_available
    /\ LET call == assign_role_to_group(non_concurrent_group_names, groups, FALSE)
       IN  /\ call.ok
           /\ event_to_groups_to_competitors' =
                 [event_to_groups_to_competitors EXCEPT ![event] = call.all_groups]
           /\ judging_assignments' =
                 [judging_assignments EXCEPT ![call.person][event] = group]
           /\ last_call' = [kind |-> "judge", ok |-> TRUE, person |-> call.person]
    /\ judges_assigned_to_group' = judges_assigned_to_group + 1
    /\ UNCHANGED <<output, inputs, scrambling_assignments, experienced_competitors, position,
                   non_concurrent_group_names, concurrent_group_names,
                   scramblers_assigned_to_group, scramblers_available,
                   judges_available_from_other_groups_available,
                   initial_num_experienced_competitors, experienced_competitor_attempts,
                   warnings, eligible_at_scrambler_phase, eligible_at_judge_phase>>

\* line 122 with the Selector called whatever the flag says
PoolsAfterFailedJudgeCall_CallsAgain ==
    assign_role_to_group(non_concurrent_group_names, groups, FALSE).all_groups

\* the pools after the condition of line 122 has been evaluated and is false
PoolsAfterFailedJudgeCall ==
    IF judges_available_from_other_groups_available
    THEN assign_role_to_group(non_concurrent_group_names, groups, FALSE).all_groups
    ELSE groups

\* the condition of line 122 is false
JudgeCallFails ==
    ~(/\ judges_available_from_other_groups_available
      /\ assign_role_to_group(non_concurrent_group_names, groups, FALSE).ok)

\* lines 127-131 without the test of lines 132-133
is_available_IgnoringAssignments(person, pools) ==
    \A concurrent_group \in Range(concurrent_group_names) :
        person \notin Range(pools[concurrent_group])

\* lines 127-133: the front experienced competitor may judge the group
is_available(person, pools) ==
    /\ \A concurrent_group \in Range(concurrent_group_names) :
          person \notin Range(pools[concurrent_group])
    /\ ~(Len(judging_assignments[person][event]) > 0
         \/ Len(scrambling_assignments[person][event]) > 0)

\* line 135: list.pop() removes the last element
ListPop(list) == SubSeq(list, 1, Len(list) - 1)

\* line 138 without the increment
NextAttempts_Forgotten(n) == n

\* line 138
NextAttempts(n) == n + 1

\* line 139
GiveUp(attempts) == attempts > initial_num_experienced_competitors

\* lines 124-141: an iteration of the judge loop that takes the fallback
JudgeFallback ==
    /\ pc = "judges"
    /\ JudgeLoopCond
    /\ JudgeCallFails
    /\ Len(experienced_competitors) > 0
    /\ LET pools == PoolsAfterFailedJudgeCall
           person == experienced_competitors[1]
           attempts == NextAttempts(experienced_competitor_attempts)
       IN  /\ event_to_groups_to_competitors' =
                 [event_to_groups_to_competitors EXCEPT ![event] = pools]
           /\ judges_available_from_other_groups_available' = FALSE
           /\ IF is_available(person, pools)
              THEN /\ experienced_competitors' = ListPop(experienced_competitors)
                   /\ judging_assignments' =
                         [judging_assignments EXCEPT ![person][event] = group]
                   /\ judges_assigned_to_group' = judges_assigned_to_group + 1
                   /\ last_call' = [kind |-> "fallback", ok |-> TRUE, person |-> person]
              ELSE /\ UNCHANGED <<experienced_competitors, judging_assignments,
                                  judges_assigned_to_group>>
                   /\ last_call' = [kind |-> "fallback", ok |-> FALSE, person |-> person]
           /\ experienced_competitor_attempts' = attempts
           /\ IF GiveUp(attempts)
              THEN /\ warnings' = Append(warnings, Warning("judge"))
                   /\ NextGroup
              ELSE UNCHANGED <<warnings, position>>
    /\ UNCHANGED <<output, inputs, scrambling_assignments,
                   non_concurrent_group_names, concurrent_group_names,
                   scramblers_assigned_to_group, scramblers_available,
                   initial_num_experienced_competitors,
                   eligible_at_scrambler_phase, eligible_at_judge_phase>>

\* lines 124-126: experienced_competitors[0] of an empty list raises IndexError
JudgeFallbackIndexError ==
    /\ pc = "judges"
    /\ JudgeLoopCond
    /\ JudgeCallFails
    /\ Len(experienced_competitors) = 0
    /\ event_to_groups_to_competitors' =
          [event_to_groups_to_competitors EXCEPT ![event] = PoolsAfterFailedJudgeCall]
    /\ judges_available_from_other_groups_available' = FALSE
    /\ pc' = "error"
    /\ last_call' = [kind |-> "fallback", ok |-> FALSE, person |-> NoOne]
    /\ UNCHANGED <<output, inputs, maps, experienced_competitors, event_index, group_index,
                   non_concurrent_group_names, concurrent_group_names,
                   judges_assigned_to_group, scramblers_assigned_to_group,
                   scramblers_available,
                   initial_num_experienced_competitors, experienced_competitor_attempts,
                   warnings, eligible_at_scrambler_phase, eligible_at_judge_phase>>

\* line 121: the judge quota is met
JudgeDone ==
    /\ pc = "judges"
    /\ ~JudgeLoopCond
    /\ NextGroup
    /\ UNCHANGED <<output, inputs, event_to_groups_to_competitors, maps, experienced_competitors,
                   locals, warnings, last_call,
                   eligible_at_scrambler_phase, eligible_at_judge_phase>>

\* ------------------------------------------------------------ Output Projector
\* line 150: the competitor has a non-empty value in the map
HasAssignment(assignments, c) == \E e \in EventSet : assignments[c][e] # Empty

\* lines 147, 152, 206: csv.DictWriter.writerow raises ValueError for a row
\* with a key that is not a fieldname; the rows have a key for every
\* recognised event column (lines 48-49), the fieldnames are the events
\* that have a group (line 206)
RowFitsHeader == EventSet \subseteq Range(event_keys)

\* the first position of rows at or after k whose competitor has a value in
\* the map, Len(rows) + 1 when there is none
RECURSIVE FirstWithAssignment(_, _, _)
FirstWithAssignment(assignments, rows, k) ==
    IF k > Len(rows) THEN k
    ELSE IF HasAssignment(assignments, rows[k]) THEN k
    ELSE FirstWithAssignment(assignments, rows, k + 1)

\* lines 149-154 for one map: the rows written and the competitors warned
\* about among the first n competitors
RowsWritten(assignments, n) ==
    SelectSeq(SubSeq(Rows(schedule), 1, n), LAMBDA c : HasAssignment(assignments, c))
ZeroJudgingWarned(n) ==
    SelectSeq(SubSeq(Rows(schedule), 1, n),
              LAMBDA c : ~HasAssignment(judging_assignments, c) /\ c \notin delegates)

\* lines 143-154, 206-212: both files are written
make_output_csv_files ==
    /\ pc = "done"
    /\ LET n == Len(Rows(schedule))
       IN  /\ \/ RowFitsHeader
              \/ /\ FirstWithAssignment(judging_assignments, Rows(schedule), 1) > n
                 /\ FirstWithAssignment(scrambling_assignments, Rows(schedule), 1) > n
           /\ judge_out' = RowsWritten(judging_assignments, n)
           /\ scramble_out' = RowsWritten(scrambling_assignments, n)
           /\ zero_judging_warnings' = ZeroJudgingWarned(n)
    /\ pc' = "written"
    /\ UNCHANGED <<inputs, event_to_groups_to_competitors, maps, experienced_competitors,
                   event_index, group_index, locals, warnings, last_call,
                   eligible_at_scrambler_phase, eligible_at_judge_phase>>

\* lines 143-154, 206-212: writerow raises ValueError at the first row to
\* write, in the judging file or, when that file has no row, in the
\* scrambling file
make_output_csv_files_ValueError ==
    /\ pc = "done"
    /\ ~RowFitsHeader
    /\ LET n == Len(Rows(schedule))
           j == FirstWithAssignment(judging_assignments, Rows(schedule), 1)
           k == FirstWithAssignment(scrambling_assignments, Rows(schedule), 1)
       IN  /\ j <= n \/ k <= n
           /\ judge_out' = <<>>
           /\ scramble_out' = <<>>
           /\ zero_judging_warnings' = ZeroJudgingWarned(IF j <= n THEN j - 1 ELSE n)
    /\ pc' = "output_error"
    /\ UNCHANGED <<inputs, event_to_groups_to_competitors, maps, experienced_competitors,
                   event_index, group_index, locals, warnings, last_call,
                   eligible_at_scrambler_phase, eligible_at_judge_phase>>

Next ==
    \/ StartGroup
    \/ ScramblerAssign
    \/ ScramblerWarn
    \/ ScramblerDone
    \/ JudgeAssign
    \/ JudgeFallback
    \/ JudgeFallbackIndexError
    \/ JudgeDone
    \/ make_output_csv_files
    \/ make_output_csv_files_ValueError

Spec == Init /\ [][Next]_vars
SpecTwoEvents == InitTwoEvents /\ [][Next]_vars
SpecFourCompetitors == InitFourCompetitors /\ [][Next]_vars
SpecFourJudges == InitFourJudges /\ [][Next]_vars
\* the pass is one sequential loop: a step that can be taken is taken
FairSpecTwoEvents == SpecTwoEvents /\ WF_vars(Next)

\* ------------------------------------------------------------------ claims
competitors == DOMAIN schedule

\* the groups whose slot a competitor works in for an event
RoleGroups(c, e) ==
    {a \in {judging_assignments[c][e], scrambling_assignments[c][e]} : Len(a) > 0}

\* C1: after the pass, nobody judges or scrambles a group of the slot
\* number that the input schedule has them competing in, for the same event
C1_ConcurrencySafety ==
    pc = "done" =>
        \A c \in competitors : \A e \in EventSet : \A a \in RoleGroups(c, e) :
            Len(schedule[c][e]) > 0 => SplitLast(schedule[c][e]) # SplitLast(a)

AllThree(c, e) ==
    /\ Len(schedule[c][e]) > 0
    /\ Len(judging_assignments[c][e]) > 0
    /\ Len(scrambling_assignments[c][e]) > 0

\* C2: after the pass, whenever a competitor has a competing group, a
\* judging assignment and a scrambling assignment for the same event, the
\* three group labels are pairwise distinct
C2_NoDoubleBooking ==
    pc = "done" =>
        \A c \in competitors : \A e \in EventSet :
            AllThree(c, e) =>
                /\ schedule[c][e] # judging_assignments[c][e]
                /\ schedule[c][e] # scrambling_assignments[c][e]
                /\ judging_assignments[c][e] # scrambling_assignments[c][e]

\* the pass has ended and some competitor competes, judges and scrambles in
\* one event
C2_Witness ==
    /\ pc = "done"
    /\ \E c \in competitors : \E e \in EventSet : AllThree(c, e)

\* check.py lines 30-35: the slot number of a value, or its placeholder
SlotOr(value, placeholder) ==
    IF Len(SplitLast(value)) > 0 THEN SplitLast(value) ELSE <<placeholder>>

\* check.py line 37: compete != judge != scramble
check_assert(c, e) ==
    LET compete == SlotOr(schedule[c][e], "not competing")
        judge == SlotOr(judging_assignments[c][e], "not judging")
        scramble == SlotOr(scrambling_assignments[c][e], "not scrambling")
    IN  compete # judge /\ judge # scramble

\* C3: the assignment that the pass ends with passes the assertion of the
\* verification pass for every competitor and every recognised event
C3_VerificationPasses ==
    pc = "done" => \A c \in competitors : \A e \in EventSet : check_assert(c, e)

\* C4: in every state no delegate has a judging or a scrambling assignment
C4_DelegateExclusion ==
    \A c \in delegates : \A e \in EventSet :
        /\ judging_assignments[c][e] = Empty
        /\ scrambling_assignments[c][e] = Empty

\* the events that c scrambles in
ScramblingEvents(c) == {e \in EventSet : scrambling_assignments[c][e] # Empty}

\* C5: in every state every competitor scrambles in at most
\* max_scramble_assignments_per_competitor events
C5_ScramblerCap ==
    \A c \in competitors :
        Cardinality(ScramblingEvents(c)) <= max_scramble_assignments_per_competitor

\* an approved scrambler who is at the cap has been popped from the pool of
\* the current event and was given nothing: the cap has rejected a scrambler
C5_Witness ==
    /\ pc \in {"scramblers", "judges"}
    /\ \E c \in approved_scramblers \ delegates :
          /\ Cardinality(ScramblingEvents(c)) = max_scramble_assignments_per_competitor
          /\ max_scramble_assignments_per_competitor > 0
          /\ Len(schedule[c][event]) > 0
          /\ c \notin Range(groups[schedule[c][event]])
          /\ judging_assignments[c][event] = Empty
          /\ scrambling_assignments[c][event] = Empty

JudgesOf(e, g) == {c \in competitors : judging_assignments[c][e] = g}
ScramblersOf(e, g) == {c \in competitors : scrambling_assignments[c][e] = g}

\* C6: in every state every group of every event has at most
\* judges_per_group judges and at most scramblers_per_group scramblers
C6_QuotaUpperBound ==
    \A e \in EventSet : \A g \in Labels :
        /\ Cardinality(JudgesOf(e, g)) <= judges_per_group
        /\ Cardinality(ScramblersOf(e, g)) <= scramblers_per_group

\* the pass has ended and some group has all its judges and all its
\* scramblers, while more competitors could still be popped for it
C6_Witness ==
    /\ pc = "done"
    /\ judges_per_group > 0
    /\ scramblers_per_group > 0
    /\ \E e \in EventSet : \E g \in Range(group_keys[e]) :
          /\ Cardinality(JudgesOf(e, g)) = judges_per_group
          /\ Cardinality(ScramblersOf(e, g)) = scramblers_per_group
          /\ \E h \in Range(group_keys[e]) :
                /\ ~EndsWith(h, SplitLast(g))
                /\ Len(event_to_groups_to_competitors[e][h]) > 0

\* C7: a group whose non-concurrent pools held at least scramblers_per_group
\* approved scramblers under the cap when its scrambler loop began has
\* exactly scramblers_per_group scramblers when the loop has ended, and
\* likewise for its judges and the non-delegates in those pools
C7_QuotaMet ==
    /\ pc = "judges" =>
          (eligible_at_scrambler_phase >= scramblers_per_group
              => scramblers_assigned_to_group = scramblers_per_group)
    /\ (pc \in {"group", "done"} /\ last_call.kind # "none") =>
          (eligible_at_judge_phase >= judges_per_group
              => judges_assigned_to_group = judges_per_group)

\* C8: the pass never aborts with an error
C8_NeverAborts == pc # "error"

Terminated == pc \in {"done", "error"}

\* C9: the pass terminates, and the judge loop of a group makes at most
\* judges_per_group commits and at most one more fallback attempt than the
\* experienced pool had members when the loop began
C9_Termination ==
    /\ <>Terminated
    /\ [](/\ judges_assigned_to_group <= judges_per_group
          /\ experienced_competitor_attempts <= initial_num_experienced_competitors + 1)

\* the pass has ended after a judge loop that gave up: it made one more
\* attempt than the pool had members and no attempt found a judge
C9_Witness ==
    /\ pc = "done"
    /\ initial_num_experienced_competitors > 0
    /\ experienced_competitor_attempts = initial_num_experienced_competitors + 1
    /\ Len(experienced_competitors) = initial_num_experienced_competitors
    /\ \E i \in 1..Len(warnings) : warnings[i].kind = "judge"

\* C10: for the group being filled, every other group of the event is in
\* the concurrent list exactly when the last tokens of the two labels are
\* equal, and in the non-concurrent list exactly when they differ
C10_ClassifierCorrect ==
    pc \in {"scramblers", "judges"} =>
        \A h \in Range(group_keys[event]) \ {group} :
            /\ h \in Range(concurrent_group_names) <=> SplitLast(h) = SplitLast(group)
            /\ h \in Range(non_concurrent_group_names) <=> SplitLast(h) # SplitLast(group)


\* C11 (as claimed): the group being filled is in neither list that the
\* classifier returns
C11_SelfInNeitherList ==
    pc \in {"scramblers", "judges"} =>
        /\ group \notin Range(non_concurrent_group_names)
        /\ group \notin Range(concurrent_group_names)

\* C11 (amended): the group being filled is never in the non-concurrent
\* list and always in the concurrent list that the classifier returns
C11_SelfOnlyInConcurrentList ==
    pc \in {"scramblers", "judges"} =>
        /\ group \notin Range(non_concurrent_group_names)
        /\ group \in Range(concurrent_group_names)

\* a group is being filled whose event has groups in both lists
C11_Witness ==
    /\ pc = "scramblers"
    /\ Len(non_concurrent_group_names) > 0
    /\ Len(concurrent_group_names) > 1

IsPrefix(p, q) == Len(p) <= Len(q) /\ p = SubSeq(q, 1, Len(p))

\* C12: every step leaves every pool a prefix of what it was: pools only
\* lose competitors, at the back, and nobody is put back
C12_PoolsOnlyShrink ==
    [][\A e \in EventSet : \A g \in Labels :
          IsPrefix(event_to_groups_to_competitors'[e][g],
                   event_to_groups_to_competitors[e][g])]_vars

\* the pass has ended with a competitor who was popped from the pool of the
\* own group and rejected, and with a competitor who was never popped
C12_Witness ==
    /\ pc = "done"
    /\ \E c \in competitors : \E e \in EventSet :
          /\ schedule[c][e] # Empty
          /\ c \notin Range(event_to_groups_to_competitors[e][schedule[c][e]])
          /\ judging_assignments[c][e] = Empty
          /\ scrambling_assignments[c][e] = Empty
    /\ \E c \in competitors : \E e \in EventSet :
          /\ schedule[c][e] # Empty
          /\ c \in Range(event_to_groups_to_competitors[e][schedule[c][e]])

\* C13: when the output step has ended, the judging table has a row for
\* exactly the competitors with a non-empty judging slot, the scrambling
\* table for exactly those with a non-empty scrambling slot, and the
\* zero-judging warnings name exactly the non-delegates without a judging slot
C13_OutputFiltering ==
    pc \in {"written", "output_error"} =>
        /\ Range(judge_out) = {c \in competitors : HasAssignment(judging_assignments, c)}
        /\ Range(scramble_out) =
              {c \in competitors : HasAssignment(scrambling_assignments, c)}
        /\ Range(zero_judging_warnings) =
              {c \in competitors \ delegates : ~HasAssignment(judging_assignments, c)}

\* C14: a step that changes the experienced pool removes its front member
\* and nobody else, and commits that member as judge of the group being
\* filled
C14_FallbackRemovesCommitted ==
    [][experienced_competitors' # experienced_competitors =>
          /\ experienced_competitors' = Tail(experienced_competitors)
          /\ judging_assignments' =
                [judging_assignments EXCEPT ![experienced_competitors[1]][event] = group]]_vars

\* a judge loop gives up on this step without having committed anyone from
\* the experienced pool
FallbackGivesUpEmptyHanded ==
    /\ pc = "judges"
    /\ Len(warnings') = Len(warnings) + 1
    /\ warnings'[Len(warnings')].kind = "judge"
    /\ Len(experienced_competitors') = initial_num_experienced_competitors

\* C15: when the fallback of a group gives up without a commit, no member
\* of the experienced pool is available for the group: an available member
\* further back would have been inspected and committed
C15_FallbackFindsEligible ==
    [][FallbackGivesUpEmptyHanded =>
          \A c \in Range(experienced_competitors) :
              ~is_available(c, event_to_groups_to_competitors'[event])]_vars

\* the warnings after a step that ends a phase with the given number of
\* commits: one more warning of the kind when the number is below the quota
WarningsAfterPhase(kind, assigned, quota) ==
    IF assigned < quota THEN Append(warnings, Warning(kind)) ELSE warnings

\* C16: a step that ends the scrambler phase of a group appends exactly one
\* scrambler warning for the group when fewer than scramblers_per_group
\* scramblers were committed and none otherwise, a step that ends the judge
\* phase does the same with a judge warning and judges_per_group, and no
\* other step changes the warnings
C16_WarningsExact ==
    [][IF pc = "scramblers" /\ pc' # "scramblers"
       THEN warnings' = WarningsAfterPhase("scrambler", scramblers_assigned_to_group',
                                           scramblers_per_group)
       ELSE IF pc = "judges" /\ pc' # "judges"
       THEN warnings' = WarningsAfterPhase("judge", judges_assigned_to_group',
                                           judges_per_group)
       ELSE warnings' = warnings]_vars

\* this step makes a Selector call for scramblers, for judges
ScramblerCallMade == pc = "scramblers" /\ ScramblerLoopCond /\ scramblers_available
JudgeCallMade ==
    pc = "judges" /\ JudgeLoopCond /\ judges_available_from_other_groups_available

\* what this step does to the pool of group h of the event being filled
PoolKept(h) ==
    event_to_groups_to_competitors'[event][h] = event_to_groups_to_competitors[event][h]
PoolPopped(h) ==
    /\ Len(groups[h]) > 0
    /\ event_to_groups_to_competitors'[event][h] = SubSeq(groups[h], 1, Len(groups[h]) - 1)
PoolVisited(h) == IF Len(groups[h]) = 0 THEN PoolKept(h) ELSE PoolPopped(h)

\* the pools outside the candidate list are left alone
CallFrame ==
    /\ \A e \in EventSet \ {event} :
          event_to_groups_to_competitors'[e] = event_to_groups_to_competitors[e]
    /\ \A h \in Labels \ Range(non_concurrent_group_names) : PoolKept(h)

\* the call visits the candidates in order up to position k, commits the
\* competitor popped there into the slot of the map and pops nothing after
CallCommitsAt(k, before, after) ==
    LET names  == non_concurrent_group_names
        person == groups[names[k]][Len(groups[names[k]])]
    IN  /\ \A i \in 1..(k - 1) : PoolVisited(names[i])
        /\ PoolPopped(names[k])
        /\ \A i \in (k + 1)..Len(names) : PoolKept(names[i])
        /\ after = [before EXCEPT ![person][event] = group]
        /\ after # before

\* the call visits every candidate and commits nobody
CallFails == \A h \in Range(non_concurrent_group_names) : PoolVisited(h)

\* C17: a step with a Selector call leaves the pools outside the candidate
\* list alone; when the call succeeds it has popped the last competitor of
\* each non-empty candidate pool up to the one it commits, nothing after,
\* and has changed exactly the slot of the committed competitor for the
\* event in the map passed in; when it fails it has popped the last
\* competitor of every non-empty candidate pool and the maps are unchanged
\* (after a failed judge call, up to the commit of the fallback that
\* follows it in the same iteration)
C17_SelectorCallFrame ==
    [][/\ ScramblerCallMade =>
            /\ CallFrame
            /\ IF last_call'.ok
               THEN /\ \E k \in 1..Len(non_concurrent_group_names) :
                          CallCommitsAt(k, scrambling_assignments, scrambling_assignments')
                    /\ judging_assignments' = judging_assignments
               ELSE /\ CallFails
                    /\ UNCHANGED maps
       /\ JudgeCallMade =>
            /\ CallFrame
            /\ IF last_call'.kind = "judge"
               THEN /\ \E k \in 1..Len(non_concurrent_group_names) :
                          CallCommitsAt(k, judging_assignments, judging_assignments')
                    /\ scrambling_assignments' = scrambling_assignments
               ELSE /\ CallFails
                    /\ scrambling_assignments' = scrambling_assignments
                    /\ \/ judging_assignments' = judging_assignments
                       \/ /\ Len(experienced_competitors) > 0
                          /\ judging_assignments' =
                                [judging_assignments EXCEPT
                                    ![experienced_competitors[1]][event] = group]]_vars

\* the first group has its judge from its only Selector call, which popped
\* and discarded a competitor of another candidate group on the way
C17_Witness ==
    /\ pc = "judges"
    /\ event_index = 1 /\ group_index = 1
    /\ scramblers_per_group = 0
    /\ judges_assigned_to_group = 1
    /\ last_call = [kind |-> "judge", ok |-> TRUE, person |-> last_call.person]
    /\ judging_assignments[last_call.person][event] = group
    /\ \E c \in competitors \ {last_call.person} :
          /\ schedule[c][event] \in Range(non_concurrent_group_names)
          /\ c \notin Range(groups[schedule[c][event]])
          /\ judging_assignments[c][event] = Empty

\* C18: no step changes a judging slot or a scrambling slot that holds a
\* group: a committed assignment is neither overwritten nor cleared
C18_AssignmentsFinal ==
    [][\A c \in competitors : \A e \in EventSet :
          /\ judging_assignments[c][e] # Empty =>
                judging_assignments'[c][e] = judging_assignments[c][e]
          /\ scrambling_assignments[c][e] # Empty =>
                scrambling_assignments'[c][e] = scrambling_assignments[c][e]]_vars

\* C19: in a judge phase in which a Selector call has failed, no step pops
\* anybody from a pool, and a judge is committed only from the front of the
\* experienced pool
C19_NoSelectorCallAfterFailure ==
    [][pc = "judges" /\ ~judges_available_from_other_groups_available =>
          /\ event_to_groups_to_competitors' = event_to_groups_to_competitors
          /\ scrambling_assignments' = scrambling_assignments
          /\ \/ judging_assignments' = judging_assignments
             \/ /\ Len(experienced_competitors) > 0
                /\ judging_assignments' =
                      [judging_assignments EXCEPT
                          ![experienced_competitors[1]][event] = group]]_vars

\* a Selector call of the judge phase has failed, the quota is not met, the
\* fallback goes on, and a candidate pool has a non-delegate that another
\* Selector call would pop and commit
C19_Witness ==
    /\ pc = "judges"
    /\ ~judges_available_from_other_groups_available
    /\ JudgeLoopCond
    /\ Len(experienced_competitors) > 0
    /\ \E h \in Range(non_concurrent_group_names) :
          /\ Len(groups[h]) > 0
          /\ groups[h][Len(groups[h])] \notin delegates

====
